---- MODULE Spec2Model ----
(***************************************************************************)
(* Model of the two scripts of the repository.                             *)
(*                                                                         *)
(*   test-random-stuff.py  builds the string `monster` out of a base       *)
(*                         character and runs of combining marks and       *)
(*                         prints it;                                      *)
(*   testgeneration.py     creates an API client, issues one               *)
(*                         generate_content request and shows every part   *)
(*                         of the response that carries inline data.       *)
(*                                                                         *)
(* Each script is a sequential process with its own program counter (gpc   *)
(* for the glyph script, ipc for the image script).  Strings are sequences *)
(* of Unicode code points.  The calls into third-party code (Client(),     *)
(* generate_content, as_image, show) either return or raise; what they     *)
(* return is chosen by the environment.                                    *)
(***************************************************************************)
EXTENDS Integers, Sequences, FiniteSets

\* Largest number of parts in a response that is explored.
MaxParts == 3

----------------------------------------------------------------------------
\* Code points written in test-random-stuff.py
ThaiKoKai == 3585            \* U+0E01
EnclosingCircle == 8413      \* U+20DD
EnclosingSquare == 8414      \* U+20DE
EnclosingDiamond == 8415     \* U+20DF
ThaiMaiTaikhu == 3655        \* U+0E47
ThaiSaraU == 3640            \* U+0E38
LF == 10                     \* print's default end, "\n"

\* "\u0304\u0305\u030d\u0342\u035b\u0352"
LatinAbove == <<772, 773, 781, 834, 859, 850>>
\* "\u0317\u0316\u0320\u0329\u032a\u0330"
LatinBelow == <<791, 790, 800, 809, 810, 816>>

\* Encodings sys.stdout may start with (locale dependent).
Encodings == {"utf-8", "cp1252", "ascii"}

\* Python's  s * n  on strings.
RECURSIVE RepeatOffByOne(_, _)
RepeatOffByOne(s, n) == IF n <= 1 THEN <<>> ELSE s \o RepeatOffByOne(s, n - 1)

RECURSIVE Repeat(_, _)
Repeat(s, n) == IF n <= 0 THEN <<>> ELSE s \o Repeat(s, n - 1)

\* base + side_wall + up_stack + down_stack
ConcatMonsterSwapped(b, s, u, d) == b \o u \o s \o d

ConcatMonster(b, s, u, d) == b \o s \o u \o d

\* Can the text stream encode the string?  None of the code points of the
\* script is below 128, and cp1252 and ascii hold none of them.
Encodable(s, enc) == enc = "utf-8" \/ \A i \in 1..Len(s) : s[i] < 128

----------------------------------------------------------------------------
\* A part of a response: inline_data is a blob or None.
Parts == [inline_data : {"blob", "none"}]

\* Python truthiness of part.inline_data
TruthyInverted(d) == d = "none"

Truthy(d) == d # "none"

\* The for statement's iterator over a list: is there an element after the
\* i parts already taken?
HasNextOffByOne(i, parts) == i + 1 < Len(parts)

HasNext(i, parts) == i < Len(parts)

RECURSIVE SeqsUpTo(_, _)
SeqsUpTo(S, n) ==
    IF n = 0 THEN {<<>>}
    ELSE LET shorter == SeqsUpTo(S, n - 1)
         IN  shorter \cup {Append(s, x) : s \in shorter, x \in S}

\* The responses the service may return.
Responses == [parts : SeqsUpTo(Parts, MaxParts)]

VARIABLES
    \* test-random-stuff.py
    gpc,          \* statement the glyph script executes next
    encoding,     \* sys.stdout.encoding
    base, side_wall, up_stack, down_stack, monster,
    stdout,       \* code points written to standard output
    prints,       \* number of print calls made
    gfault,       \* the glyph script ended with an uncaught exception
    \* testgeneration.py
    ipc,          \* statement the image script executes next
    client,       \* <<>> while unbound, <<"Client">> once created
    response,     \* <<>> while unbound, <<r>> once returned
    idx,          \* number of parts the for loop has taken from response.parts
    part,         \* <<>> while unbound, <<p>> the loop variable
    image,        \* <<>> while unbound, <<i>> the image made from part i
    calls,        \* number of generate_content invocations
    inflight,     \* external calls that have been entered and not left
    visited,      \* indices of the parts taken by the loop, in order
    invoked,      \* indices of the parts for which show() was invoked
    displayed,    \* indices of the parts whose show() returned
    fault         \* "none", or the call whose exception ended the script

gvars == <<gpc, encoding, base, side_wall, up_stack, down_stack, monster,
           stdout, prints, gfault>>
ivars == <<ipc, client, response, idx, part, image, calls, inflight,
           visited, invoked, displayed, fault>>
vars == <<gvars, ivars>>

Init ==
    /\ gpc = "reconfigure"
    /\ encoding \in Encodings
    /\ base = <<>> /\ side_wall = <<>> /\ up_stack = <<>>
    /\ down_stack = <<>> /\ monster = <<>>
    /\ stdout = <<>>
    /\ prints = 0
    /\ gfault = FALSE
    /\ ipc = "client"
    /\ client = <<>>
    /\ response = <<>>
    /\ idx = 0
    /\ part = <<>>
    /\ image = <<>>
    /\ calls = 0
    /\ inflight = {}
    /\ visited = <<>>
    /\ invoked = <<>>
    /\ displayed = <<>>
    /\ fault = "none"

----------------------------------------------------------------------------
\* test-random-stuff.py

\* sys.stdout.reconfigure(encoding="utf-8")
Reconfigure ==
    /\ gpc = "reconfigure"
    /\ encoding' = "utf-8"
    /\ gpc' = "base"
    /\ UNCHANGED <<base, side_wall, up_stack, down_stack, monster, stdout,
                   prints, gfault>>
    /\ UNCHANGED ivars

\* base = "\u0e01"
AssignBase ==
    /\ gpc = "base"
    /\ base' = <<ThaiKoKai>>
    /\ gpc' = "side_wall"
    /\ UNCHANGED <<encoding, side_wall, up_stack, down_stack, monster, stdout,
                   prints, gfault>>
    /\ UNCHANGED ivars

\* side_wall = "\u20dd" * 5 + "\u20de" * 5 + "\u20df" * 5
AssignSideWall ==
    /\ gpc = "side_wall"
    /\ side_wall' = Repeat(<<EnclosingCircle>>, 5)
                      \o Repeat(<<EnclosingSquare>>, 5)
                      \o Repeat(<<EnclosingDiamond>>, 5)
    /\ gpc' = "up_stack"
    /\ UNCHANGED <<encoding, base, up_stack, down_stack, monster, stdout,
                   prints, gfault>>
    /\ UNCHANGED ivars

\* up_stack = "\u0e47" * 10 + <LatinAbove> * 3
AssignUpStack ==
    /\ gpc = "up_stack"
    /\ up_stack' = Repeat(<<ThaiMaiTaikhu>>, 10) \o Repeat(LatinAbove, 3)
    /\ gpc' = "down_stack"
    /\ UNCHANGED <<encoding, base, side_wall, down_stack, monster, stdout,
                   prints, gfault>>
    /\ UNCHANGED ivars

\* down_stack = "\u0e38" * 5 + <LatinBelow> * 2
AssignDownStack ==
    /\ gpc = "down_stack"
    /\ down_stack' = Repeat(<<ThaiSaraU>>, 5) \o Repeat(LatinBelow, 2)
    /\ gpc' = "monster"
    /\ UNCHANGED <<encoding, base, side_wall, up_stack, monster, stdout,
                   prints, gfault>>
    /\ UNCHANGED ivars

\* monster = base + side_wall + up_stack + down_stack
AssignMonster ==
    /\ gpc = "monster"
    /\ monster' = ConcatMonster(base, side_wall, up_stack, down_stack)
    /\ gpc' = "print"
    /\ UNCHANGED <<encoding, base, side_wall, up_stack, down_stack, stdout,
                   prints, gfault>>
    /\ UNCHANGED ivars

\* print(monster): writes the string and the line end, or raises
\* UnicodeEncodeError when the stream cannot encode the string.
PrintMonster ==
    /\ gpc = "print"
    /\ prints' = prints + 1
    /\ IF Encodable(monster, encoding)
       THEN /\ stdout' = stdout \o monster \o <<LF>>
            /\ gfault' = gfault
       ELSE /\ stdout' = stdout
            /\ gfault' = TRUE
    /\ gpc' = "done"
    /\ UNCHANGED <<encoding, base, side_wall, up_stack, down_stack, monster>>
    /\ UNCHANGED ivars

GlyphNext ==
    \/ Reconfigure
    \/ AssignBase
    \/ AssignSideWall
    \/ AssignUpStack
    \/ AssignDownStack
    \/ AssignMonster
    \/ PrintMonster

----------------------------------------------------------------------------
\* testgeneration.py

\* client = genai.Client()
ClientOk ==
    /\ ipc = "client"
    /\ client' = <<"Client">>
    /\ ipc' = "generate"
    /\ UNCHANGED <<response, idx, part, image, calls, inflight, visited,
                   invoked, displayed, fault>>
    /\ UNCHANGED gvars

\* genai.Client() raises
ClientFail ==
    /\ ipc = "client"
    /\ fault' = "client"
    /\ ipc' = "faulted"
    /\ UNCHANGED <<client, response, idx, part, image, calls, inflight,
                   visited, invoked, displayed>>
    /\ UNCHANGED gvars

\* client.models.generate_content(...) is entered
GenerateCall ==
    /\ ipc = "generate"
    /\ calls' = calls + 1
    /\ inflight' = inflight \cup {"generate_content"}
    /\ ipc' = "awaiting"
    /\ UNCHANGED <<client, response, idx, part, image, visited, invoked,
                   displayed, fault>>
    /\ UNCHANGED gvars

\* response = <what generate_content returns>
GenerateReturn ==
    /\ ipc = "awaiting"
    /\ \E r \in Responses : response' = <<r>>
    /\ inflight' = inflight \ {"generate_content"}
    /\ ipc' = "for"
    /\ UNCHANGED <<client, idx, part, image, calls, visited, invoked,
                   displayed, fault>>
    /\ UNCHANGED gvars

\* generate_content raises; the retrying variant issues the request again
GenerateFailRetry ==
    /\ ipc = "awaiting"
    /\ fault' = "generate_content"
    /\ inflight' = inflight \ {"generate_content"}
    /\ ipc' = "generate"
    /\ UNCHANGED <<client, response, idx, part, image, calls, visited,
                   invoked, displayed>>
    /\ UNCHANGED gvars

GenerateFail ==
    /\ ipc = "awaiting"
    /\ fault' = "generate_content"
    /\ inflight' = inflight \ {"generate_content"}
    /\ ipc' = "faulted"
    /\ UNCHANGED <<client, response, idx, part, image, calls, visited,
                   invoked, displayed>>
    /\ UNCHANGED gvars

\* for part in response.parts:  the iterator yields the next part
ForNext ==
    /\ ipc = "for"
    /\ HasNext(idx, response[1].parts)
    /\ idx' = idx + 1
    /\ part' = <<response[1].parts[idx + 1]>>
    /\ visited' = Append(visited, idx + 1)
    /\ ipc' = "if"
    /\ UNCHANGED <<client, response, image, calls, inflight, invoked,
                   displayed, fault>>
    /\ UNCHANGED gvars

\* for part in response.parts:  the iterator is exhausted, the script ends
ForEnd ==
    /\ ipc = "for"
    /\ ~HasNext(idx, response[1].parts)
    /\ ipc' = "done"
    /\ UNCHANGED <<client, response, idx, part, image, calls, inflight,
                   visited, invoked, displayed, fault>>
    /\ UNCHANGED gvars

\* if part.inline_data:  taken
IfInline ==
    /\ ipc = "if"
    /\ Truthy(part[1].inline_data)
    /\ ipc' = "as_image"
    /\ UNCHANGED <<client, response, idx, part, image, calls, inflight,
                   visited, invoked, displayed, fault>>
    /\ UNCHANGED gvars

\* if part.inline_data:  not taken; a variant that leaves the loop instead
IfSkipBreaks ==
    /\ ipc = "if"
    /\ ~Truthy(part[1].inline_data)
    /\ ipc' = "done"
    /\ UNCHANGED <<client, response, idx, part, image, calls, inflight,
                   visited, invoked, displayed, fault>>
    /\ UNCHANGED gvars

IfSkip ==
    /\ ipc = "if"
    /\ ~Truthy(part[1].inline_data)
    /\ ipc' = "for"
    /\ UNCHANGED <<client, response, idx, part, image, calls, inflight,
                   visited, invoked, displayed, fault>>
    /\ UNCHANGED gvars

\* image = part.as_image()
AsImageOk ==
    /\ ipc = "as_image"
    /\ image' = <<idx>>
    /\ ipc' = "show"
    /\ UNCHANGED <<client, response, idx, part, calls, inflight, visited,
                   invoked, displayed, fault>>
    /\ UNCHANGED gvars

\* part.as_image() raises
AsImageFail ==
    /\ ipc = "as_image"
    /\ fault' = "as_image"
    /\ ipc' = "faulted"
    /\ UNCHANGED <<client, response, idx, part, image, calls, inflight,
                   visited, invoked, displayed>>
    /\ UNCHANGED gvars

\* image.show() is entered; a variant that does not wait for it
ShowCallNonBlocking ==
    /\ ipc = "show"
    /\ invoked' = Append(invoked, image[1])
    /\ inflight' = inflight \cup {"show"}
    /\ ipc' = "for"
    /\ UNCHANGED <<client, response, idx, part, image, calls, visited,
                   displayed, fault>>
    /\ UNCHANGED gvars

ShowCall ==
    /\ ipc = "show"
    /\ invoked' = Append(invoked, image[1])
    /\ inflight' = inflight \cup {"show"}
    /\ ipc' = "showing"
    /\ UNCHANGED <<client, response, idx, part, image, calls, visited,
                   displayed, fault>>
    /\ UNCHANGED gvars

\* image.show() returns: the image is on display, the loop goes on
ShowReturn ==
    /\ ipc = "showing"
    /\ displayed' = Append(displayed, image[1])
    /\ inflight' = inflight \ {"show"}
    /\ ipc' = "for"
    /\ UNCHANGED <<client, response, idx, part, image, calls, visited,
                   invoked, fault>>
    /\ UNCHANGED gvars

\* image.show() raises; the swallowing variant goes on with the next part
ShowFailSwallowed ==
    /\ ipc = "showing"
    /\ fault' = "show"
    /\ inflight' = inflight \ {"show"}
    /\ ipc' = "for"
    /\ UNCHANGED <<client, response, idx, part, image, calls, visited,
                   invoked, displayed>>
    /\ UNCHANGED gvars

ShowFail ==
    /\ ipc = "showing"
    /\ fault' = "show"
    /\ inflight' = inflight \ {"show"}
    /\ ipc' = "faulted"
    /\ UNCHANGED <<client, response, idx, part, image, calls, visited,
                   invoked, displayed>>
    /\ UNCHANGED gvars

\* The statements from the for loop on.
LoopNext ==
    \/ ForNext
    \/ ForEnd
    \/ IfInline
    \/ IfSkip
    \/ AsImageOk
    \/ AsImageFail
    \/ ShowCall
    \/ ShowReturn
    \/ ShowFail

ImageNext ==
    \/ ClientOk
    \/ ClientFail
    \/ GenerateCall
    \/ GenerateReturn
    \/ GenerateFail
    \/ LoopNext

Next == GlyphNext \/ ImageNext

Spec == Init /\ [][Next]_vars

\* The interpreter always executes the next statement of a running script,
\* and a display call that was entered returns or raises.
FairSpec == Spec /\ WF_vars(GlyphNext) /\ WF_vars(LoopNext)

----------------------------------------------------------------------------
\* Vocabulary of the properties

\* The classes the script's comments give its marks.
EnclosingMarks == {EnclosingCircle, EnclosingSquare, EnclosingDiamond}
AboveMarks == {ThaiMaiTaikhu} \cup {LatinAbove[i] : i \in 1..Len(LatinAbove)}
BelowMarks == {ThaiSaraU} \cup {LatinBelow[i] : i \in 1..Len(LatinBelow)}

IsPrefix(s, t) == Len(s) <= Len(t) /\ \A i \in 1..Len(s) : s[i] = t[i]

Range(s) == {s[i] : i \in 1..Len(s)}

\* The indices, ascending, of the first n parts that carry inline data.
RECURSIVE BlobIndices(_, _)
BlobIndices(parts, n) ==
    IF n = 0 THEN <<>>
    ELSE IF parts[n].inline_data = "blob"
         THEN Append(BlobIndices(parts, n - 1), n)
         ELSE BlobIndices(parts, n - 1)

\* What the script wrote before the line end.
PrintedLine == SubSeq(stdout, 1, Len(stdout) - 1)

----------------------------------------------------------------------------
\* C1: when the glyph script has ended, standard output holds exactly
\* base + side_wall + up_stack + down_stack (and print's line end): the
\* first code point is Thai ko kai, which occurs once; after it come only
\* enclosing marks, then only above marks, then only below marks, and
\* these three runs are side_wall, up_stack and down_stack.
C1_PrintedString ==
    gpc = "done" =>
        /\ stdout = base \o side_wall \o up_stack \o down_stack \o <<LF>>
        /\ PrintedLine[1] = ThaiKoKai
        /\ Cardinality({i \in 1..Len(PrintedLine) :
                            PrintedLine[i] = ThaiKoKai}) = 1
        /\ \E a, b \in 1..Len(PrintedLine) :
              /\ a <= b
              /\ \A i \in 2..a : PrintedLine[i] \in EnclosingMarks
              /\ \A i \in (a + 1)..b : PrintedLine[i] \in AboveMarks
              /\ \A i \in (b + 1)..Len(PrintedLine) :
                    PrintedLine[i] \in BelowMarks
              /\ SubSeq(PrintedLine, 2, a) = side_wall
              /\ SubSeq(PrintedLine, a + 1, b) = up_stack
              /\ SubSeq(PrintedLine, b + 1, Len(PrintedLine)) = down_stack
              /\ side_wall # <<>> /\ up_stack # <<>> /\ down_stack # <<>>

C1_Witness ==
    /\ gpc = "done"
    /\ Len(stdout) > 2
    /\ stdout[1] = ThaiKoKai
    /\ stdout[2] \in EnclosingMarks

\* C2: show() is invoked only for parts that carry inline data, at most
\* once for each and in the order of the parts; when the script has ended
\* normally it has been invoked, and has displayed an image, exactly once
\* for each such part, so the number of displayed images is the number of
\* parts with inline data.
C2_ShowPerInlinePart ==
    /\ response = <<>> => invoked = <<>> /\ displayed = <<>>
    /\ response # <<>> =>
         LET parts == response[1].parts
             blobs == BlobIndices(parts, Len(parts))
         IN  /\ IsPrefix(invoked, blobs)
             /\ IsPrefix(displayed, invoked)
             /\ ipc = "done" =>
                   /\ invoked = blobs
                   /\ displayed = blobs
                   /\ Len(displayed) =
                        Cardinality({i \in 1..Len(parts) :
                                        parts[i].inline_data = "blob"})

C2_Witness ==
    /\ ipc = "done"
    /\ response[1].parts = << [inline_data |-> "blob"],
                              [inline_data |-> "none"],
                              [inline_data |-> "blob"] >>
    /\ displayed = <<1, 3>>

\* C3: generate_content is invoked at most once; when client creation or
\* the generate_content call has raised, the script is in its faulted end
\* state, no response was bound, no part was visited and no image was
\* shown.
C3_RequestFault ==
    /\ calls <= 1
    /\ fault \in {"client", "generate_content"} =>
          /\ ipc = "faulted"
          /\ response = <<>>
          /\ visited = <<>> /\ invoked = <<>> /\ displayed = <<>>
          /\ inflight = {}
          /\ fault = "client" => calls = 0

C3_Witness ==
    /\ fault = "generate_content"
    /\ ipc = "faulted"
    /\ calls = 1

\* C4: when as_image() or show() has raised on part idx, the script is in
\* its faulted end state, no part after idx was visited or shown, and the
\* images displayed are exactly those of the inline-data parts before idx.
C4_DisplayFault ==
    fault \in {"as_image", "show"} =>
        /\ ipc = "faulted"
        /\ response # <<>>
        /\ idx \in 1..Len(response[1].parts)
        /\ response[1].parts[idx].inline_data = "blob"
        /\ visited = [i \in 1..idx |-> i]
        /\ \A i \in Range(invoked) : i <= idx
        /\ displayed = BlobIndices(response[1].parts, idx - 1)

C4_Witness ==
    /\ fault = "show"
    /\ displayed = <<1>>
    /\ idx = 2
    /\ Len(response[1].parts) = 3
    /\ response[1].parts[3].inline_data = "blob"

\* C5: at most one request is issued and a finished run has issued exactly
\* one; no part is visited and no image shown before the response has been
\* returned; at most one external call is in progress at any time; and the
\* loop takes the next part, the one right after the last, only when no
\* call is in progress and every show() that was entered has returned.
C5_Sequential ==
    /\ [](/\ calls <= 1
          /\ Cardinality(inflight) <= 1
          /\ ipc = "done" => calls = 1
          /\ (visited # <<>> \/ invoked # <<>> \/ displayed # <<>>) =>
                /\ response # <<>>
                /\ calls = 1
                /\ "generate_content" \notin inflight
          /\ inflight # {} => ipc \in {"awaiting", "showing"})
    /\ [][idx' # idx =>
             /\ idx' = idx + 1
             /\ inflight = {}
             /\ Len(invoked) = Len(displayed)]_vars

C5_Witness ==
    /\ ipc = "showing"
    /\ inflight = {"show"}
    /\ idx = 2
    /\ displayed = <<1>>
    /\ invoked = <<1, 2>>

\* C6: the glyph script reaches its end, and at its end it has made one
\* print call, which wrote the monster string; the image script, once the
\* response is there, reaches its end unless a display call raises, and at
\* its end it has visited every part exactly once, in order.
C6_Termination ==
    /\ <>(gpc = "done")
    /\ [](prints <= 1)
    /\ [](gpc = "done" =>
            /\ prints = 1
            /\ ~gfault
            /\ stdout = monster \o <<LF>>
            /\ Len(monster) > 1)
    /\ (response # <<>>) ~> (ipc = "done" \/ fault # "none")
    /\ [](\A i \in 1..Len(visited) : visited[i] = i)
    /\ [](ipc = "done" => Len(visited) = Len(response[1].parts))

C6_Witness ==
    /\ gpc = "done"
    /\ prints = 1
    /\ ipc = "done"
    /\ visited = <<1, 2, 3>>

\* C7: the printed string has 61 code points: Thai ko kai, 5 enclosing
\* circles, 5 enclosing squares, 5 enclosing diamonds, 10 Thai mai taikhu,
\* 3 times the 6 Latin above marks in their written order, 5 Thai sara u
\* and 2 times the 6 Latin below marks in their written order.
C7_SixtyOneCodePoints ==
    gpc = "done" =>
        /\ Len(monster) = 61
        /\ PrintedLine = monster
        /\ Len(side_wall) = 15 /\ Len(up_stack) = 28 /\ Len(down_stack) = 17
        /\ monster[1] = ThaiKoKai
        /\ \A i \in 2..6 : monster[i] = EnclosingCircle
        /\ \A i \in 7..11 : monster[i] = EnclosingSquare
        /\ \A i \in 12..16 : monster[i] = EnclosingDiamond
        /\ \A i \in 17..26 : monster[i] = ThaiMaiTaikhu
        /\ \A k \in 0..2 : \A j \in 1..6 :
              monster[26 + 6 * k + j] = LatinAbove[j]
        /\ \A i \in 45..49 : monster[i] = ThaiSaraU
        /\ \A k \in 0..1 : \A j \in 1..6 :
              monster[49 + 6 * k + j] = LatinBelow[j]

C7_Witness ==
    /\ gpc = "done"
    /\ Len(stdout) = 62
    /\ stdout[61] = 816

\* C8: a part without inline data is skipped: the loop goes back to the
\* for statement and nothing else of the script's state changes; parts
\* with inline data after it are displayed all the same; and a response
\* without any inline-data part (an empty list included) never faults,
\* displays nothing and lets the script reach its normal end.
C8_SkipPartWithoutData ==
    /\ [][(ipc = "if" /\ part[1].inline_data = "none" /\ ipc' # ipc) =>
             /\ ipc' = "for"
             /\ UNCHANGED <<client, response, idx, part, image, calls,
                            inflight, visited, invoked, displayed, fault>>]_vars
    /\ [](ipc = "done" =>
            displayed = BlobIndices(response[1].parts,
                                    Len(response[1].parts)))
    /\ []((response # <<>> /\
           BlobIndices(response[1].parts, Len(response[1].parts)) = <<>>) =>
              /\ fault = "none"
              /\ ipc # "faulted"
              /\ invoked = <<>> /\ displayed = <<>>)
    /\ (response # <<>> /\
        BlobIndices(response[1].parts, Len(response[1].parts)) = <<>>)
          ~> (ipc = "done")

C8_Witness ==
    /\ ipc = "done"
    /\ response[1].parts = << [inline_data |-> "none"],
                              [inline_data |-> "blob"] >>
    /\ displayed = <<2>>

====
